---- MODULE Spec2Model ----
(***************************************************************************)
(* State-machine model of the storefront App component (App.tsx, kept as   *)
(* src/unnamed/part_000) and of the entity types of src/types.ts.          *)
(*                                                                         *)
(* State    = the useState slots of App plus the slices owned by the       *)
(*            useAuth / useCart hooks, plus the requests in flight.        *)
(* Actions  = one per event handler / promise continuation.  A handler     *)
(*            runs to completion and React commits its updates together;   *)
(*            the useEffect callbacks whose dependencies changed in that   *)
(*            commit run as the tail of the same action.                   *)
(* Derived  = useMemo values and render conditions, as operators.          *)
(***************************************************************************)
EXTENDS Integers, Sequences, FiniteSets, TLC

VARIABLES
  products,            \* useState<Product[]>([])                  line 25
  isLoading,           \* useState<boolean>(true)                  line 26
  error,               \* useState<string | null>(null)            line 27
  view,                \* useState<View>('store')                  line 29
  isCartOpen,          \* useState(false)                          line 30
  isLoginModalOpen,    \* useState(false)                          line 31
  lastOrderId,         \* useState<string | null>(null)            line 32
  isMobileMenuOpen,    \* useState(false)                          line 33
  adminNotifications,  \* useState<AdminNotification[]>([])        line 34
  auth,                \* useAuth(): [isLoggedIn, role]            line 38
  itemCount,           \* useCart(): itemCount                     line 39
  searchTerm,          \* useState('')                             line 43
  selectedCategories,  \* useState<string[]>([])                   line 44
  selectedBrands,      \* useState<string[]>([])                   line 45
  priceRange,          \* useState<[number, number]>([0,Infinity]) line 46
  minRating,           \* useState(0)                              line 47
  sortBy,              \* useState('relevance')                    line 48
  phase,               \* "init", "mounted" after the mount effects, "unmounted"
  productLoads,        \* generateProducts() calls awaiting completion
  notifLoads,          \* generateNotifications() calls awaiting completion
  orderLog             \* every identifier handlePlaceOrder has produced

vars == <<products, isLoading, error, view, isCartOpen, isLoginModalOpen,
          lastOrderId, isMobileMenuOpen, adminNotifications, auth, itemCount,
          searchTerm, selectedCategories, selectedBrands, priceRange,
          minRating, sortBy, phase, productLoads, notifLoads, orderLog>>

filterVars == <<searchTerm, selectedCategories, selectedBrands, priceRange,
                minRating, sortBy>>

appVars == <<isLoading, error, view, isCartOpen, isLoginModalOpen,
             lastOrderId, isMobileMenuOpen, adminNotifications, auth,
             itemCount, phase, productLoads, notifLoads, orderLog>>

(***************************************************************************)
(* Bounds                                                                  *)
(***************************************************************************)
MaxProducts == 3      \* longest product list handed to the filter engine
MaxLoaded == 1        \* longest product list a load or an admin edit yields
MaxLoads == 2         \* product requests in flight at once
MaxNotifLoads == 2    \* notification requests in flight at once
MaxCart == 1          \* items in the cart
MaxOrders == 2        \* orders placed in one session

(***************************************************************************)
(* Values                                                                  *)
(***************************************************************************)
null == "null"

\* useState<string | null>(null) of lastOrderId: null, or the identifier
NoOrderId == <<>>
OrderIdOf(id) == <<id>>

\* Number.POSITIVE_INFINITY of the default price range: above every price.
Infinity == 1000000

\* Product (types.ts): the fields the engine reads.  Names are sequences of
\* characters so that case folding and substring search are computed.
Catalogue ==
  << [id |-> 1, name |-> <<"A", "b">>,      category |-> "flour",
      brand |-> "amrah", price |-> 10,  rating |-> 3],
     [id |-> 2, name |-> <<"b", "a">>,      category |-> "rice",
      brand |-> "amrah", price |-> 50,  rating |-> 5],
     [id |-> 3, name |-> <<"B">>,           category |-> "flour",
      brand |-> "other", price |-> 50,  rating |-> 4],
     [id |-> 4, name |-> <<"a", "B", "a">>, category |-> "rice",
      brand |-> "other", price |-> 200, rating |-> 4] >>

Product == {Catalogue[i] : i \in DOMAIN Catalogue}

RECURSIVE SeqsNoDup(_, _)
SeqsNoDup(S, n) ==
  IF n = 0 THEN {<<>>}
  ELSE LET shorter == SeqsNoDup(S, n - 1)
           longest == {t \in shorter : Len(t) = n - 1}
           used(t) == {t[i] : i \in DOMAIN t}
       IN  shorter \cup
           UNION {{Append(t, x) : x \in S \ used(t)} : t \in longest}

\* Product lists with distinct products (ids are keys), at most MaxProducts.
ProductLists == SeqsNoDup(Product, MaxProducts)

SearchTerms == {<<>>, <<"a", "B">>, <<"B", "A">>}

\* <option value=...> of the sort <select>
SortKeys == {"relevance", "price_asc", "price_desc", "rating_desc"}

\* the five price buttons
PricePresets == {<<0, 50>>, <<50, 200>>, <<200, 1000>>, <<1000, Infinity>>,
                 <<0, Infinity>>}

\* the rating buttons [4, 3, 2, 1]
RatingButtons == {4, 3, 2, 1}

(***************************************************************************)
(* String helpers: String.prototype.toLowerCase / includes                 *)
(***************************************************************************)
LowerChar(c) ==
  CASE c = "A" -> "a"
    [] c = "B" -> "b"
    [] OTHER   -> c

toLowerCase(s) == [i \in DOMAIN s |-> LowerChar(s[i])]

\* s.includes(t): t occurs in s as a contiguous run (the empty t always does)
includes(s, t) ==
  \E k \in 0..(Len(s) - Len(t)) : SubSeq(s, k + 1, k + Len(t)) = t

\* Array.prototype.includes on a string[]
arrayIncludes(arr, x) == \E i \in DOMAIN arr : arr[i] = x

(***************************************************************************)
(* filteredAndSortedProducts (useMemo)                                     *)
(***************************************************************************)
\* matchesFilter with the rating threshold exclusive
matchesFilter_strictRating(p) ==
  /\ includes(toLowerCase(p.name), toLowerCase(searchTerm))
  /\ (Len(selectedCategories) = 0
      \/ arrayIncludes(selectedCategories, p.category))
  /\ (Len(selectedBrands) = 0 \/ arrayIncludes(selectedBrands, p.brand))
  /\ p.price >= priceRange[1] /\ p.price <= priceRange[2]
  /\ p.rating > minRating

matchesFilter(p) ==
  LET matchesSearch   == includes(toLowerCase(p.name), toLowerCase(searchTerm))
      matchesCategory == Len(selectedCategories) = 0
                         \/ arrayIncludes(selectedCategories, p.category)
      matchesBrand    == Len(selectedBrands) = 0
                         \/ arrayIncludes(selectedBrands, p.brand)
      matchesPrice    == p.price >= priceRange[1] /\ p.price <= priceRange[2]
      matchesRating   == p.rating >= minRating
  IN  matchesSearch /\ matchesCategory /\ matchesBrand /\ matchesPrice
      /\ matchesRating

filtered == SelectSeq(products, matchesFilter)

\* compare with the price_desc arm copied from price_asc
compare_descAsAsc(a, b) ==
  CASE sortBy = "price_asc"   -> a.price - b.price
    [] sortBy = "price_desc"  -> a.price - b.price
    [] sortBy = "rating_desc" -> b.rating - a.rating
    [] OTHER                  -> 0

\* the comparator handed to .sort()
compare(a, b) ==
  CASE sortBy = "price_asc"   -> a.price - b.price
    [] sortBy = "price_desc"  -> b.price - a.price
    [] sortBy = "rating_desc" -> b.rating - a.rating
    [] OTHER                  -> 0

\* Array.prototype.sort: a stable comparison sort (insertion of each element
\* behind the last element that does not compare greater than it).
RECURSIVE insertSorted(_, _)
insertSorted(s, x) ==
  IF s = <<>> THEN <<x>>
  ELSE IF compare(s[Len(s)], x) > 0
       THEN Append(insertSorted(SubSeq(s, 1, Len(s) - 1), x), s[Len(s)])
       ELSE Append(s, x)

RECURSIVE sort(_)
sort(s) ==
  IF s = <<>> THEN <<>>
  ELSE insertSorted(sort(SubSeq(s, 1, Len(s) - 1)), s[Len(s)])

filteredAndSortedProducts == sort(filtered)

\* const categories / brands (useMemo): distinct values, first occurrence
RECURSIVE distinct(_)
distinct(s) ==
  IF s = <<>> THEN <<>>
  ELSE LET front == distinct(SubSeq(s, 1, Len(s) - 1))
       IN  IF arrayIncludes(front, s[Len(s)]) THEN front
           ELSE Append(front, s[Len(s)])

categories == distinct([i \in DOMAIN products |-> products[i].category])
brands     == distinct([i \in DOMAIN products |-> products[i].brand])

(***************************************************************************)
(* Filter and sort event handlers                                          *)
(***************************************************************************)
\* prev.includes(x) ? prev.filter(c => c !== x) : [...prev, x]
toggleIn(prev, x) ==
  IF arrayIncludes(prev, x)
  THEN SelectSeq(prev, LAMBDA c : c # x)
  ELSE Append(prev, x)

setSearchTerm(t) ==
  /\ searchTerm' = t
  /\ UNCHANGED <<products, selectedCategories, selectedBrands, priceRange,
                 minRating, sortBy, appVars>>

handleCategoryChange(c) ==
  /\ selectedCategories' = toggleIn(selectedCategories, c)
  /\ UNCHANGED <<products, searchTerm, selectedBrands, priceRange,
                 minRating, sortBy, appVars>>

handleBrandChange(b) ==
  /\ selectedBrands' = toggleIn(selectedBrands, b)
  /\ UNCHANGED <<products, searchTerm, selectedCategories, priceRange,
                 minRating, sortBy, appVars>>

setPriceRange(r) ==
  /\ priceRange' = r
  /\ UNCHANGED <<products, searchTerm, selectedCategories, selectedBrands,
                 minRating, sortBy, appVars>>

\* onClick={() => setMinRating(minRating === r ? 0 : r)}
setMinRating(r) ==
  /\ minRating' = IF minRating = r THEN 0 ELSE r
  /\ UNCHANGED <<products, searchTerm, selectedCategories, selectedBrands,
                 priceRange, sortBy, appVars>>

setSortBy(k) ==
  /\ sortBy' = k
  /\ UNCHANGED <<products, searchTerm, selectedCategories, selectedBrands,
                 priceRange, minRating, appVars>>

(***************************************************************************)
(* Initial values of the useState slots                                    *)
(***************************************************************************)
InitFilterState ==
  /\ searchTerm = <<>>
  /\ selectedCategories = <<>>
  /\ selectedBrands = <<>>
  /\ priceRange = <<0, Infinity>>
  /\ minRating = 0
  /\ sortBy = "relevance"

InitAppState ==
  /\ isLoading = TRUE
  /\ error = null
  /\ view = "store"
  /\ isCartOpen = FALSE
  /\ isLoginModalOpen = FALSE
  /\ lastOrderId = NoOrderId
  /\ isMobileMenuOpen = FALSE
  /\ adminNotifications = <<>>
  /\ auth = [isLoggedIn |-> FALSE, role |-> null]
  /\ itemCount = 0
  /\ phase = "init"
  /\ productLoads = 0
  /\ notifLoads = 0
  /\ orderLog = <<>>

(***************************************************************************)
(* SpecFilter: the filter/sort engine over every bounded product list.     *)
(* The product list is the engine's input; the criteria are reached        *)
(* through the handlers of the store view.                                 *)
(***************************************************************************)
InitFilter ==
  /\ products \in ProductLists
  /\ InitFilterState
  /\ InitAppState

NextFilter ==
  \/ \E t \in SearchTerms : setSearchTerm(t)
  \/ \E i \in DOMAIN categories : handleCategoryChange(categories[i])
  \/ \E i \in DOMAIN brands : handleBrandChange(brands[i])
  \/ \E r \in PricePresets : setPriceRange(r)
  \/ \E r \in RatingButtons : setMinRating(r)
  \/ \E k \in SortKeys : setSortBy(k)

SpecFilter == InitFilter /\ [][NextFilter]_vars

(***************************************************************************)
(* App controller: values                                                  *)
(***************************************************************************)
\* type View (line 21)
View == {"store", "admin", "dashboard", "checkout", "confirmation", "contact"}

\* UserRole widened by a role the Admin buttons do not list
UserRole_withCustomer == {"admin", "manager", "editor", "customer"}

\* type UserRole (types.ts)
UserRole == {"admin", "manager", "editor"}

\* ['admin', 'manager', 'editor'] of the Admin buttons
AdminRoles == {"admin", "manager", "editor"}

LoadError == "Failed to load products."

\* what generateProducts() resolves to, and what AdminView hands setProducts
LoadedLists == {SubSeq(Catalogue, 1, n) : n \in 0..MaxLoaded}

\* what generateNotifications() resolves to
NotifLists == {<<>>, <<[id |-> 1, isRead |-> FALSE]>>}

LoggedOut == [isLoggedIn |-> FALSE, role |-> null]

(***************************************************************************)
(* Order identifier:                                                       *)
(*   `ORD-${Date.now()}-${Math.random().toString(36).substr(2, 5)          *)
(*                                   .toUpperCase()}`                      *)
(***************************************************************************)
\* Math.random().toString(36): "0" for 0, otherwise "0." and the digits
RandomStrings == {<<"0">>, <<"0", ".", "a", "7">>}

\* String.prototype.substr(start, length), start counted from 0
substr(s, start, length) ==
  IF start >= Len(s) THEN <<>>
  ELSE SubSeq(s, start + 1,
              IF start + length < Len(s) THEN start + length ELSE Len(s))

UpperChar(c) ==
  CASE c = "a" -> "A"
    [] c = "b" -> "B"
    [] OTHER   -> c

toUpperCase(s) == [i \in DOMAIN s |-> UpperChar(s[i])]

\* readings of Date.now()
Timestamps == {1001, 1002}

makeOrderId(now, random) ==
  <<"ORD-", now, "-">> \o toUpperCase(substr(random, 2, 5))

(***************************************************************************)
(* Render conditions                                                       *)
(***************************************************************************)
\* if (view === 'admin' && auth.isLoggedIn && auth.role) return <AdminView/>
AdminRendered ==
  phase = "mounted" /\ view = "admin" /\ auth.isLoggedIn /\ auth.role # null

\* the page shell: header, current view, footer, MiniCart, LoginModal
ShellRendered == phase = "mounted" /\ ~AdminRendered

\* the Admin button rendered without the session and role tests
AdminButtonShown_ungated == ShellRendered

\* auth.role && ['admin', 'manager', 'editor'].includes(auth.role)
AdminButtonShown ==
  ShellRendered /\ auth.isLoggedIn /\ auth.role # null
  /\ auth.role \in AdminRoles

\* the three affordances of the product grid region of renderStoreView
SkeletonShown   == isLoading
ErrorPanelShown == error # null
GridShown       == ~isLoading /\ error = null

(***************************************************************************)
(* Effects, run after the commit that changed their dependencies           *)
(***************************************************************************)
\* the [view] effect without setMobileMenuOpen(false)
setViewAndRunEffect_cartOnly(v) ==
  /\ view' = v
  /\ IF v # view
     THEN isCartOpen' = FALSE /\ UNCHANGED isMobileMenuOpen
     ELSE UNCHANGED <<isCartOpen, isMobileMenuOpen>>

\* useEffect(..., [view]): close cart and mobile menu when view changes
setViewAndRunEffect(v) ==
  /\ view' = v
  /\ IF v # view
     THEN isCartOpen' = FALSE /\ isMobileMenuOpen' = FALSE
     ELSE UNCHANGED <<isCartOpen, isMobileMenuOpen>>

\* the [auth.isLoggedIn, auth.role] effect without its else branch
setAuthAndRunEffect_noClear(a) ==
  /\ auth' = a
  /\ IF a = auth
     THEN UNCHANGED <<adminNotifications, notifLoads>>
     ELSE IF a.isLoggedIn /\ a.role # null
          THEN /\ notifLoads < MaxNotifLoads
               /\ notifLoads' = notifLoads + 1
               /\ UNCHANGED adminNotifications
          ELSE UNCHANGED <<adminNotifications, notifLoads>>

\* useEffect(..., [auth.isLoggedIn, auth.role]): notifications for the badge
setAuthAndRunEffect(a) ==
  /\ auth' = a
  /\ IF a = auth
     THEN UNCHANGED <<adminNotifications, notifLoads>>
     ELSE IF a.isLoggedIn /\ a.role # null
          THEN /\ notifLoads < MaxNotifLoads
               /\ notifLoads' = notifLoads + 1
               /\ UNCHANGED adminNotifications
          ELSE /\ adminNotifications' = <<>>
               /\ UNCHANGED notifLoads

\* fetchProducts without setError(null)
setProductsAndRunEffect_keepError(ps, loading, err, loads) ==
  /\ products' = ps
  /\ IF phase = "mounted" /\ Len(ps) # Len(products) /\ Len(ps) = 0
     THEN /\ loads < MaxLoads
          /\ isLoading' = TRUE
          /\ error' = err
          /\ productLoads' = loads + 1
     ELSE /\ isLoading' = loading
          /\ error' = err
          /\ productLoads' = loads

\* useEffect(..., [products.length]): fetchProducts when the list is empty.
\* loading, err, loads are the values the commit left before the effect.
\* Effects run only while the component is mounted.
setProductsAndRunEffect(ps, loading, err, loads) ==
  /\ products' = ps
  /\ IF phase = "mounted" /\ Len(ps) # Len(products) /\ Len(ps) = 0
     THEN /\ loads < MaxLoads
          /\ isLoading' = TRUE
          /\ error' = null
          /\ productLoads' = loads + 1
     ELSE /\ isLoading' = loading
          /\ error' = err
          /\ productLoads' = loads

(***************************************************************************)
(* Mount: the three effects run once after the first render                *)
(***************************************************************************)
Mount ==
  /\ phase = "init"
  /\ phase' = "mounted"
  /\ IF auth.isLoggedIn /\ auth.role # null
     THEN notifLoads' = notifLoads + 1 /\ UNCHANGED adminNotifications
     ELSE adminNotifications' = <<>> /\ UNCHANGED notifLoads
  /\ IF Len(products) = 0
     THEN isLoading' = TRUE /\ error' = null
          /\ productLoads' = productLoads + 1
     ELSE UNCHANGED <<isLoading, error, productLoads>>
  /\ isCartOpen' = FALSE
  /\ isMobileMenuOpen' = FALSE
  /\ UNCHANGED <<products, view, isLoginModalOpen, lastOrderId, auth,
                 itemCount, orderLog, filterVars>>

\* Teardown of the component tree.  No effect returns a cleanup function,
\* so the requests in flight stay in flight and their continuations still
\* call the setters.
Unmount ==
  /\ phase = "mounted"
  /\ phase' = "unmounted"
  /\ UNCHANGED <<products, isLoading, error, view, isCartOpen,
                 isLoginModalOpen, lastOrderId, isMobileMenuOpen,
                 adminNotifications, auth, itemCount, productLoads,
                 notifLoads, orderLog, filterVars>>

(***************************************************************************)
(* fetchProducts continuations                                             *)
(***************************************************************************)
\* await generateProducts() resolved: setProducts(...); finally
fetchProductsResolved(ps) ==
  /\ phase # "init"
  /\ productLoads > 0
  /\ setProductsAndRunEffect(ps, FALSE, error, productLoads - 1)
  /\ UNCHANGED <<view, isCartOpen, isLoginModalOpen, lastOrderId,
                 isMobileMenuOpen, adminNotifications, auth, itemCount,
                 phase, notifLoads, orderLog, filterVars>>

\* fetchProducts without the finally block
fetchProductsRejected_noFinally ==
  /\ phase # "init"
  /\ productLoads > 0
  /\ error' = LoadError
  /\ productLoads' = productLoads - 1
  /\ UNCHANGED <<products, isLoading, view, isCartOpen, isLoginModalOpen,
                 lastOrderId, isMobileMenuOpen, adminNotifications, auth,
                 itemCount, phase, notifLoads, orderLog, filterVars>>

\* await generateProducts() rejected: catch, finally
fetchProductsRejected ==
  /\ phase # "init"
  /\ productLoads > 0
  /\ error' = LoadError
  /\ isLoading' = FALSE
  /\ productLoads' = productLoads - 1
  /\ UNCHANGED <<products, view, isCartOpen, isLoginModalOpen, lastOrderId,
                 isMobileMenuOpen, adminNotifications, auth, itemCount,
                 phase, notifLoads, orderLog, filterVars>>

\* AdminView calls the setProducts it was handed
adminSetProducts(ps) ==
  /\ AdminRendered
  /\ setProductsAndRunEffect(ps, isLoading, error, productLoads)
  /\ UNCHANGED <<view, isCartOpen, isLoginModalOpen, lastOrderId,
                 isMobileMenuOpen, adminNotifications, auth, itemCount,
                 phase, notifLoads, orderLog, filterVars>>

(***************************************************************************)
(* fetchNotifs continuations                                               *)
(***************************************************************************)
fetchNotifsResolved(ns) ==
  /\ phase # "init"
  /\ notifLoads > 0
  /\ adminNotifications' = ns
  /\ notifLoads' = notifLoads - 1
  /\ UNCHANGED <<products, isLoading, error, view, isCartOpen,
                 isLoginModalOpen, lastOrderId, isMobileMenuOpen, auth,
                 itemCount, phase, productLoads, orderLog, filterVars>>

\* fetchNotifs whose catch also resets the list
fetchNotifsRejected_clears ==
  /\ phase # "init"
  /\ notifLoads > 0
  /\ notifLoads' = notifLoads - 1
  /\ adminNotifications' = <<>>
  /\ UNCHANGED <<products, isLoading, error, view, isCartOpen,
                 isLoginModalOpen, lastOrderId, isMobileMenuOpen, auth,
                 itemCount, phase, productLoads, orderLog, filterVars>>

\* catch: console.error only
fetchNotifsRejected ==
  /\ phase # "init"
  /\ notifLoads > 0
  /\ notifLoads' = notifLoads - 1
  /\ UNCHANGED <<products, isLoading, error, view, isCartOpen,
                 isLoginModalOpen, lastOrderId, isMobileMenuOpen,
                 adminNotifications, auth, itemCount, phase, productLoads,
                 orderLog, filterVars>>

(***************************************************************************)
(* Navigation                                                              *)
(***************************************************************************)
\* setView('store'): header, mobile menu, the views' onNavigateToStore
navigateToStore ==
  /\ phase = "mounted"
  /\ setViewAndRunEffect("store")
  /\ UNCHANGED <<products, isLoading, error, isLoginModalOpen, lastOrderId,
                 adminNotifications, auth, itemCount, phase, productLoads,
                 notifLoads, orderLog, filterVars>>

\* setView('contact'): header, mobile menu
navigateToContact ==
  /\ ShellRendered
  /\ setViewAndRunEffect("contact")
  /\ UNCHANGED <<products, isLoading, error, isLoginModalOpen, lastOrderId,
                 adminNotifications, auth, itemCount, phase, productLoads,
                 notifLoads, orderLog, filterVars>>

\* setView('admin'): the Admin / Admin Dashboard buttons
navigateToAdmin ==
  /\ AdminButtonShown
  /\ setViewAndRunEffect("admin")
  /\ UNCHANGED <<products, isLoading, error, isLoginModalOpen, lastOrderId,
                 adminNotifications, auth, itemCount, phase, productLoads,
                 notifLoads, orderLog, filterVars>>

\* setView('dashboard'): Account, My Account, wishlist button when logged in
navigateToDashboard ==
  /\ ShellRendered
  /\ auth.isLoggedIn
  /\ setViewAndRunEffect("dashboard")
  /\ UNCHANGED <<products, isLoading, error, isLoginModalOpen, lastOrderId,
                 adminNotifications, auth, itemCount, phase, productLoads,
                 notifLoads, orderLog, filterVars>>

\* const handleCheckout = () => setView('checkout')   (MiniCart onCheckout)
handleCheckout ==
  /\ ShellRendered
  /\ setViewAndRunEffect("checkout")
  /\ UNCHANGED <<products, isLoading, error, isLoginModalOpen, lastOrderId,
                 adminNotifications, auth, itemCount, phase, productLoads,
                 notifLoads, orderLog, filterVars>>

(***************************************************************************)
(* Authentication                                                          *)
(***************************************************************************)
\* setLoginModalOpen(true): Admin Login buttons, wishlist button when
\* logged out
openLoginModal ==
  /\ ShellRendered
  /\ ~auth.isLoggedIn
  /\ isLoginModalOpen' = TRUE
  /\ UNCHANGED <<products, isLoading, error, view, isCartOpen, lastOrderId,
                 isMobileMenuOpen, adminNotifications, auth, itemCount,
                 phase, productLoads, notifLoads, orderLog, filterVars>>

\* LoginModal onClose
closeLoginModal ==
  /\ ShellRendered
  /\ isLoginModalOpen
  /\ isLoginModalOpen' = FALSE
  /\ UNCHANGED <<products, isLoading, error, view, isCartOpen, lastOrderId,
                 isMobileMenuOpen, adminNotifications, auth, itemCount,
                 phase, productLoads, notifLoads, orderLog, filterVars>>

\* useAuth().login as LoginModal calls it: the session of a role
authLogin(r) == [isLoggedIn |-> TRUE, role |-> r]

\* handleLoginSuccess: setLoginModalOpen(false); setView('admin')
handleLoginSuccess ==
  /\ isLoginModalOpen' = FALSE
  /\ setViewAndRunEffect("admin")

\* LoginModal: a successful login, then onLoginSuccess
loginSuccess(r) ==
  /\ ShellRendered
  /\ isLoginModalOpen
  /\ setAuthAndRunEffect(authLogin(r))
  /\ handleLoginSuccess
  /\ UNCHANGED <<products, isLoading, error, lastOrderId, itemCount, phase,
                 productLoads, orderLog, filterVars>>

\* onClick / onLogout = () => { auth.logout(); setView('store'); }
logout ==
  /\ phase = "mounted"
  /\ auth.isLoggedIn
  /\ setAuthAndRunEffect(LoggedOut)
  /\ setViewAndRunEffect("store")
  /\ UNCHANGED <<products, isLoading, error, isLoginModalOpen, lastOrderId,
                 itemCount, phase, productLoads, orderLog, filterVars>>

(***************************************************************************)
(* Overlays and cart                                                       *)
(***************************************************************************)
\* cart button: setIsCartOpen(true)
openCart ==
  /\ ShellRendered
  /\ isCartOpen' = TRUE
  /\ UNCHANGED <<products, isLoading, error, view, isLoginModalOpen,
                 lastOrderId, isMobileMenuOpen, adminNotifications, auth,
                 itemCount, phase, productLoads, notifLoads, orderLog,
                 filterVars>>

\* MiniCart onClose: setIsCartOpen(false)
closeCart ==
  /\ ShellRendered
  /\ isCartOpen
  /\ isCartOpen' = FALSE
  /\ UNCHANGED <<products, isLoading, error, view, isLoginModalOpen,
                 lastOrderId, isMobileMenuOpen, adminNotifications, auth,
                 itemCount, phase, productLoads, notifLoads, orderLog,
                 filterVars>>

\* setMobileMenuOpen(!isMobileMenuOpen)
toggleMobileMenu ==
  /\ ShellRendered
  /\ isMobileMenuOpen' = ~isMobileMenuOpen
  /\ UNCHANGED <<products, isLoading, error, view, isCartOpen,
                 isLoginModalOpen, lastOrderId, adminNotifications, auth,
                 itemCount, phase, productLoads, notifLoads, orderLog,
                 filterVars>>

\* useCart(): a product is added to the cart
addToCart ==
  /\ ShellRendered
  /\ itemCount < MaxCart
  /\ itemCount' = itemCount + 1
  /\ UNCHANGED <<products, isLoading, error, view, isCartOpen,
                 isLoginModalOpen, lastOrderId, isMobileMenuOpen,
                 adminNotifications, auth, phase, productLoads, notifLoads,
                 orderLog, filterVars>>

\* useCart().clearCart
clearCart == itemCount' = 0

\* handlePlaceOrder without setLastOrderId(orderId)
handlePlaceOrder_noRecord(now, random) ==
  /\ ShellRendered
  /\ view = "checkout"
  /\ Len(orderLog) < MaxOrders
  /\ orderLog' = Append(orderLog, makeOrderId(now, random))
  /\ clearCart
  /\ setViewAndRunEffect("confirmation")
  /\ UNCHANGED <<products, isLoading, error, isLoginModalOpen, lastOrderId,
                 adminNotifications, auth, phase, productLoads, notifLoads,
                 filterVars>>

\* handlePlaceOrder without clearCart()
handlePlaceOrder_noClear(now, random) ==
  /\ ShellRendered
  /\ view = "checkout"
  /\ Len(orderLog) < MaxOrders
  /\ LET orderId == makeOrderId(now, random)
     IN  /\ lastOrderId' = OrderIdOf(orderId)
         /\ orderLog' = Append(orderLog, orderId)
  /\ setViewAndRunEffect("confirmation")
  /\ UNCHANGED <<products, isLoading, error, isLoginModalOpen,
                 adminNotifications, auth, itemCount, phase, productLoads,
                 notifLoads, filterVars>>

\* handlePlaceOrder (CheckoutView onPlaceOrder)
handlePlaceOrder(now, random) ==
  /\ ShellRendered
  /\ view = "checkout"
  /\ Len(orderLog) < MaxOrders
  /\ LET orderId == makeOrderId(now, random)
     IN  /\ lastOrderId' = OrderIdOf(orderId)
         /\ orderLog' = Append(orderLog, orderId)
  /\ clearCart
  /\ setViewAndRunEffect("confirmation")
  /\ UNCHANGED <<products, isLoading, error, isLoginModalOpen,
                 adminNotifications, auth, phase, productLoads, notifLoads,
                 filterVars>>

(***************************************************************************)
(* Spec: the view controller -- views, session, overlays, cart, orders.    *)
(* The product-load continuations and the admin's product edits write only *)
(* products / isLoading / error / productLoads, which nothing here reads;  *)
(* they are exercised in SpecLoad.                                         *)
(***************************************************************************)
Init ==
  /\ products = <<>>
  /\ InitFilterState
  /\ InitAppState

Next ==
  \/ Mount
  \/ Unmount
  \/ \E ns \in NotifLists : fetchNotifsResolved(ns)
  \/ fetchNotifsRejected
  \/ navigateToStore
  \/ navigateToContact
  \/ navigateToAdmin
  \/ navigateToDashboard
  \/ handleCheckout
  \/ openLoginModal
  \/ closeLoginModal
  \/ \E r \in UserRole : loginSuccess(r)
  \/ logout
  \/ openCart
  \/ closeCart
  \/ toggleMobileMenu
  \/ addToCart
  \/ \E now \in Timestamps, random \in RandomStrings :
       handlePlaceOrder(now, random)

Spec == Init /\ [][Next]_vars

(***************************************************************************)
(* SpecLoad: data loading -- the product and notification requests, the    *)
(* session changes that trigger them and the admin's product edits.  The   *)
(* overlay, cart and order handlers write nothing these actions read.      *)
(***************************************************************************)
NextLoad ==
  \/ Mount
  \/ Unmount
  \/ \E ps \in LoadedLists : fetchProductsResolved(ps)
  \/ fetchProductsRejected
  \/ \E ps \in LoadedLists : adminSetProducts(ps)
  \/ \E ns \in NotifLists : fetchNotifsResolved(ns)
  \/ fetchNotifsRejected
  \/ navigateToStore
  \/ navigateToContact
  \/ navigateToAdmin
  \/ navigateToDashboard
  \/ openLoginModal
  \/ closeLoginModal
  \/ \E r \in UserRole : loginSuccess(r)
  \/ logout

SpecLoad == Init /\ [][NextLoad]_vars

(***************************************************************************)
(* C1, C2: the derived list                                                *)
(***************************************************************************)
Range(s) == {s[i] : i \in DOMAIN s}

\* two characters are the same letter, whatever their case
SameLetter(c, d) ==
  \/ c = d
  \/ {c, d} = {"a", "A"}
  \/ {c, d} = {"b", "B"}

\* the five predicates of the contract, stated without the engine's helpers
NameContainsTerm(p) ==
  \E off \in 0..Len(p.name) :
    /\ off + Len(searchTerm) <= Len(p.name)
    /\ \A k \in 1..Len(searchTerm) : SameLetter(p.name[off + k], searchTerm[k])

SatisfiesCriteria(p) ==
  /\ NameContainsTerm(p)
  /\ (selectedCategories = <<>> \/ p.category \in Range(selectedCategories))
  /\ (selectedBrands = <<>> \/ p.brand \in Range(selectedBrands))
  /\ priceRange[1] <= p.price
  /\ p.price <= priceRange[2]
  /\ minRating <= p.rating

\* C1: filteredAndSortedProducts holds exactly the products of the list that
\* satisfy all five predicates: none that satisfies them is missing, none
\* that fails one is present, and none appears twice.
C1_FilterExact ==
  /\ \A p \in Product :
       (p \in Range(filteredAndSortedProducts))
         <=> (p \in Range(products) /\ SatisfiesCriteria(p))
  /\ Cardinality(Range(filteredAndSortedProducts))
       = Len(filteredAndSortedProducts)

\* all five criteria are active, one product passes and one is rejected
C1_Witness ==
  /\ searchTerm # <<>>
  /\ selectedCategories # <<>>
  /\ selectedBrands # <<>>
  /\ priceRange = <<0, 50>>
  /\ minRating = 3
  /\ Len(filteredAndSortedProducts) >= 1
  /\ Len(filteredAndSortedProducts) < Len(products)
  /\ \E p \in Range(filteredAndSortedProducts) : p.rating = 3

\* position of a product in the filtered list it was taken from
PosInFiltered(p) == CHOOSE i \in DOMAIN filtered : filtered[i] = p

\* out is ordered by the key, ties in the order of the filtered list
OrderedBy(out, before(_, _), tie(_, _)) ==
  \A i, j \in DOMAIN out :
    i < j => /\ before(out[i], out[j]) \/ tie(out[i], out[j])
             /\ tie(out[i], out[j])
                  => PosInFiltered(out[i]) < PosInFiltered(out[j])

\* C2: the output is the stable sort of the filtered list by the sort key
\* (price ascending, price descending, rating descending); for relevance it
\* is the filtered list itself.
C2_StableSort ==
  LET out == filteredAndSortedProducts
  IN  /\ Len(out) = Len(filtered)
      /\ Range(out) = Range(filtered)
      /\ sortBy = "price_asc" =>
           OrderedBy(out, LAMBDA a, b : a.price < b.price,
                          LAMBDA a, b : a.price = b.price)
      /\ sortBy = "price_desc" =>
           OrderedBy(out, LAMBDA a, b : a.price > b.price,
                          LAMBDA a, b : a.price = b.price)
      /\ sortBy = "rating_desc" =>
           OrderedBy(out, LAMBDA a, b : a.rating > b.rating,
                          LAMBDA a, b : a.rating = b.rating)
      /\ sortBy \notin {"price_asc", "price_desc", "rating_desc"} =>
           out = filtered

\* a descending sort that moved products and kept a tie in list order
C2_Witness ==
  /\ sortBy = "price_desc"
  /\ Len(filteredAndSortedProducts) = 3
  /\ filteredAndSortedProducts # filtered
  /\ \E i \in 1..2 :
       filteredAndSortedProducts[i].price
         = filteredAndSortedProducts[i + 1].price

(***************************************************************************)
(* C3, C4: admin gating                                                    *)
(***************************************************************************)
RecognizedRoles == {"admin", "manager", "editor"}

Authorized == auth.isLoggedIn /\ auth.role \in RecognizedRoles

\* C3: the admin view is rendered only for a caller who is logged in and
\* holds one of the roles admin, manager, editor.
C3_AdminRenderedOnlyIfAuthorized == AdminRendered => Authorized

\* the admin view is on screen for an editor
C3_Witness == AdminRendered /\ auth.role = "editor" /\ ~isLoginModalOpen

\* C4: in every reachable state, view = 'admin' implies that the caller is
\* logged in with a recognized role, whichever handler set the view.
C4_AdminViewOnlyIfAuthorized == view = "admin" => Authorized

\* a manager is on the admin view with notifications delivered, which takes
\* a login (or the Admin button) and a completed request
C4_Witness ==
  /\ view = "admin"
  /\ auth.role = "manager"
  /\ adminNotifications # <<>>
  /\ notifLoads = 0

(***************************************************************************)
(* C5, C6: placing an order                                                *)
(***************************************************************************)
\* the step is a run of handlePlaceOrder: an identifier was generated
OrderPlaced == Len(orderLog') = Len(orderLog) + 1

\* C5: after handlePlaceOrder the view is 'confirmation', the cart is empty
\* and lastOrderId holds the identifier just generated, which is non-empty.
C5_PlaceOrderResult ==
  [][OrderPlaced =>
       /\ view' = "confirmation"
       /\ itemCount' = 0
       /\ lastOrderId' # NoOrderId
       /\ lastOrderId' = OrderIdOf(orderLog'[Len(orderLog')])
       /\ Len(orderLog'[Len(orderLog')]) > 0]_vars

\* one order has been placed: the confirmation view shows its identifier
\* and the cart is empty
C5_Witness ==
  /\ Len(orderLog) = 1
  /\ view = "confirmation"
  /\ itemCount = 0
  /\ lastOrderId = OrderIdOf(orderLog[1])

\* C6: no two orders placed in one session share an identifier.
C6_OrderIdsUnique ==
  \A i, j \in DOMAIN orderLog : i # j => orderLog[i] # orderLog[j]

(***************************************************************************)
(* C7, C8, C9: product loading                                             *)
(***************************************************************************)
\* C7: when a product load rejects, the error message is set, isLoading is
\* false, the product list is left as it was, and of the three affordances
\* of the grid region only the error panel applies.
C7_RejectedLoadShowsError ==
  [][fetchProductsRejected =>
       /\ error' # null
       /\ isLoading' = FALSE
       /\ products' = products
       /\ ErrorPanelShown'
       /\ ~SkeletonShown'
       /\ ~GridShown']_vars

\* the only load has failed: nothing in flight, no data, the error is shown
C7_Witness ==
  /\ phase = "mounted"
  /\ productLoads = 0
  /\ products = <<>>
  /\ error = LoadError
  /\ ~isLoading

C9_NoConcurrentLoads == productLoads <= 1

(***************************************************************************)
(* C10: overlays on a view change                                          *)
(***************************************************************************)
\* C10 as stated: whenever view changes, the cart panel, the mobile menu and
\* the login modal are all closed in the next state.
C10_AllOverlaysClosed ==
  [][view' # view =>
       ~isCartOpen' /\ ~isMobileMenuOpen' /\ ~isLoginModalOpen']_vars

\* C10 amended: whenever view changes, the cart panel and the mobile menu
\* are closed in the next state (the login modal keeps its value unless the
\* handler itself closes it).
C10_CartAndMenuClosed ==
  [][view' # view => ~isCartOpen' /\ ~isMobileMenuOpen']_vars

\* the view was changed with the login modal open: cart and menu are
\* closed, the modal is still there
C10_Witness ==
  /\ view = "checkout"
  /\ isLoginModalOpen
  /\ ~isCartOpen
  /\ ~isMobileMenuOpen
  /\ itemCount > 0

(***************************************************************************)
(* C11: notifications follow the session                                   *)
(***************************************************************************)
HasSession(a) == a.isLoggedIn /\ a.role # null

\* C11: whenever the session changes to logged out or to no role, the
\* notification list is set to empty and no request is issued for that
\* change; a request is issued only for a logged-in caller with a role.
C11_LogoutClearsWithoutRequest ==
  [][/\ (auth' # auth /\ ~HasSession(auth'))
          => (adminNotifications' = <<>> /\ notifLoads' <= notifLoads)
     /\ (notifLoads' > notifLoads) => HasSession(auth')]_vars

\* logged out again while the request of the login is still pending: the
\* list is empty and nothing new was requested
C11_Witness ==
  /\ phase = "mounted"
  /\ ~auth.isLoggedIn
  /\ adminNotifications = <<>>
  /\ notifLoads = 1
  /\ view = "store"

C13_NotifFailureIsSilent ==
  [][fetchNotifsRejected =>
       /\ adminNotifications' = adminNotifications
       /\ error' = error
       /\ notifLoads' = notifLoads - 1
       /\ productLoads' = productLoads]_vars

\* notifications are shown, no request is pending and no error is set: the
\* state a failed second request leaves behind
C13_Witness ==
  /\ phase = "mounted"
  /\ auth.isLoggedIn
  /\ adminNotifications # <<>>
  /\ notifLoads = 0
  /\ error = null
  /\ view = "dashboard"

(***************************************************************************)
(* C14: the product list is requested once                                 *)
(***************************************************************************)
\* the step issues a generateProducts() request on top of those pending
ProductLoadStarted == productLoads' > productLoads

\* C14: after a product load has failed (the error message is set) no
\* further product load is started, and a load is started only with the
\* product list empty.
C14_NoLoadAfterFailure ==
  [][ProductLoadStarted => error = null /\ Len(products') = 0]_vars

(***************************************************************************)
(* C15: notifications while logged out                                     *)
(***************************************************************************)
\* C15: while the component is mounted and the caller is logged out, the
\* notification list is empty, also after a request that was started before
\* the logout has completed.
C15_EmptyWhileLoggedOut ==
  (phase = "mounted" /\ ~auth.isLoggedIn) => adminNotifications = <<>>

(***************************************************************************)
(* C16: the confirmation view has an order identifier                      *)
(***************************************************************************)
\* C16: whenever view is 'confirmation', lastOrderId is non-null; view
\* becomes 'confirmation' only by a place-order step taken from 'checkout'.
C16_ConfirmationHasOrderId ==
  [][/\ view' = "confirmation" => lastOrderId' # NoOrderId
     /\ (view' = "confirmation" /\ view # "confirmation")
          => (view = "checkout" /\ OrderPlaced)]_vars

\* the confirmation of a second order of the session
C16_Witness ==
  /\ view = "confirmation"
  /\ Len(orderLog) = 2
  /\ lastOrderId = OrderIdOf(orderLog[2])
  /\ phase = "mounted"

====
